---- MODULE Spec2Model ----
(***************************************************************************)
(* Model of the request/cache layer of the WaniKani API client            *)
(* (src/src/classes/WaniKaniRequest.ts).                                   *)
(*                                                                         *)
(* A call of request() is a process that runs through the awaits of the    *)
(* method: fs.stat, fs.readFile, fetch, response.json, fs.mkdir,           *)
(* fs.writeFile.  The cache directory is the only state shared between     *)
(* calls.  The network, the clock and out-of-band changes of the cache     *)
(* directory are the environment.                                          *)
(***************************************************************************)
EXTENDS Integers, Sequences, FiniteSets, TLC

\* ------------------------------------------------------------------ bounds
MaxCalls == 2
MaxTime == 1
MaxFileAge == 2

\* --------------------------------------------------------------- constants
Undefined == "undefined"
NOT_MODIFIED == 304

Calls == 1..MaxCalls

ApiKeys == {"key1"}
SharedApiKeys == {"key1", "key2"}
apiRevision == "20170710"

\* JSON values are modelled as strings; NumberValues are the JSON values
\* whose typeof is not 'string'.
NumberValues == {"#42"}

typeof(v) ==
    IF v = Undefined THEN "undefined"
    ELSE IF v \in NumberValues THEN "number"
    ELSE "string"

Bearer(apiKey) == CASE apiKey = "key1" -> "Bearer key1"
                    [] apiKey = "key2" -> "Bearer key2"

\* ---------------------------------------------------------------- headers
\* A headers object is the sequence of its entries in insertion order
\* (the order JSON.stringify and Object.entries see).
Header(k, v) == [k |-> k, v |-> v]

baseHeaders(apiKey) ==
    << Header("Authorization", Bearer(apiKey)),
       Header("Content-Type", "application/json"),
       Header("Wanikani-Revision", apiRevision) >>

HasKey(obj, k) == \E i \in 1..Len(obj) : obj[i].k = k

\* obj[k] = v on an object: an existing key keeps its position.
SetProp(obj, k, v) ==
    IF HasKey(obj, k)
    THEN [i \in 1..Len(obj) |-> IF obj[i].k = k THEN Header(k, v) ELSE obj[i]]
    ELSE Append(obj, Header(k, v))

GetProp(obj, k) ==
    IF HasKey(obj, k)
    THEN (CHOOSE e \in {obj[i] : i \in 1..Len(obj)} : e.k = k).v
    ELSE Undefined

\* { ...a, ...b }
RECURSIVE Spread(_, _)
Spread(a, b) ==
    IF b = << >> THEN a
    ELSE Spread(SetProp(a, Head(b).k, Head(b).v), Tail(b))

IsStringEntry(e) == typeof(e.v) = "string"

\* A RequestInit: method and body are Undefined when the caller leaves them
\* out; hasHeaders tells whether options.headers is defined.
RequestInit(method, hasHeaders, headers, body) ==
    [method |-> method, hasHeaders |-> hasHeaders, headers |-> headers, body |-> body]

OptMethod(options) == options.method
OptBody(options) == options.body
HasHeaders(options) == options.hasHeaders

\* prepareHeaders without the typeof value === 'string' filter
prepareHeaders_NoFilter(options, apiKey) ==
    IF HasHeaders(options)
    THEN Spread(baseHeaders(apiKey), options.headers)
    ELSE baseHeaders(apiKey)

prepareHeaders(options, apiKey) ==
    IF HasHeaders(options)
    THEN Spread(baseHeaders(apiKey), SelectSeq(options.headers, IsStringEntry))
    ELSE baseHeaders(apiKey)

\* -------------------------------------------------------------------- URL
ISO(d) == CASE d = "date1" -> "2024-01-01T00:00:00.000Z"
            [] d = "date2" -> "2024-06-30T12:00:00.000Z"

\* buildRequestUrl that leaves the updated_after parameter out
buildRequestUrl_NoSearch(endpoint, updatedAfter) ==
    [ pathname |-> endpoint, search |-> << >> ]

buildRequestUrl(endpoint, updatedAfter) ==
    [ pathname |-> endpoint,
      search   |-> IF updatedAfter # Undefined
                   THEN << Header("updated_after", ISO(updatedAfter)) >>
                   ELSE << >> ]

\* ------------------------------------------------------------ fingerprint
apiKeyHash(apiKey) == CASE apiKey = "key1" -> "sha256(key1)[0..8]"
                        [] apiKey = "key2" -> "sha256(key2)[0..8]"

\* JSON.stringify drops the members whose value is undefined.
StringifyObject(obj) == SelectSeq(obj, LAMBDA e : e.v # Undefined)

\* generateCacheKey without the api key hash
generateCacheKey_NoApiKeyHash(url, options, apiKey) ==
    [ endpoint   |-> url.pathname,
      params     |-> url.search,
      method     |-> IF OptMethod(options) # Undefined THEN OptMethod(options) ELSE "GET",
      headers    |-> IF HasHeaders(options) THEN StringifyObject(options.headers) ELSE << >>,
      body       |-> OptBody(options),
      apiKeyHash |-> "" ]

\* generateCacheKey without the body
generateCacheKey_NoBody(url, options, apiKey) ==
    [ endpoint   |-> url.pathname,
      params     |-> url.search,
      method     |-> IF OptMethod(options) # Undefined THEN OptMethod(options) ELSE "GET",
      headers    |-> IF HasHeaders(options) THEN StringifyObject(options.headers) ELSE << >>,
      body       |-> Undefined,
      apiKeyHash |-> apiKeyHash(apiKey) ]

\* The MD5 digest is taken as injective: the key is the string that is
\* hashed, i.e. the members JSON.stringify writes, in order.
generateCacheKey(url, options, apiKey) ==
    [ endpoint   |-> url.pathname,
      params     |-> url.search,
      method     |-> IF OptMethod(options) # Undefined THEN OptMethod(options) ELSE "GET",
      headers    |-> IF HasHeaders(options) THEN StringifyObject(options.headers) ELSE << >>,
      body       |-> OptBody(options),
      apiKeyHash |-> apiKeyHash(apiKey) ]

\* context.options = { method: 'GET', ...options, headers }
contextOptions(options, headers) ==
    RequestInit(IF OptMethod(options) # Undefined THEN OptMethod(options) ELSE "GET",
                TRUE, headers, OptBody(options))

\* --------------------------------------------------------- cache entries
Null == [null |-> TRUE]

\* File contents: what JSON.parse makes of the text.
\*   parses = FALSE : JSON.parse throws
\*   isObject       : typeof parsed === 'object' && parsed !== null
\*   members        : the members of the object, as entries
Text(parses, isObject, members) ==
    [parses |-> parses, isObject |-> isObject, members |-> members]

\* JSON.stringify that loses the lastModified member
JSONstringify_DropsLastModified(cacheData) ==
    Text(TRUE, TRUE,
         StringifyObject(<< Header("data", cacheData.data),
                            Header("etag", cacheData.etag) >>))

JSONstringify(cacheData) ==
    Text(TRUE, TRUE,
         StringifyObject(<< Header("data", cacheData.data),
                            Header("etag", cacheData.etag),
                            Header("lastModified", cacheData.lastModified) >>))

hasDataProperty(members) == HasKey(members, "data")

hasValidOptionalString(members, key) ==
    \/ ~HasKey(members, key)
    \/ GetProp(members, key) = Undefined
    \/ typeof(GetProp(members, key)) = "string"

isCacheData(parsed) ==
    /\ parsed.isObject
    /\ hasDataProperty(parsed.members)
    /\ hasValidOptionalString(parsed.members, "etag")
    /\ hasValidOptionalString(parsed.members, "lastModified")

CacheData(data, etag, lastModified) ==
    [data |-> data, etag |-> etag, lastModified |-> lastModified]

\* The object getCached returns, seen through its properties.
AsCacheData(parsed) ==
    CacheData(GetProp(parsed.members, "data"),
              GetProp(parsed.members, "etag"),
              GetProp(parsed.members, "lastModified"))

\* addConditionalHeaders that leaves a header the caller supplied as it is
addConditionalHeaders_KeepsCaller(headers, cacheData) ==
    LET h1 == IF cacheData.etag # Undefined /\ cacheData.etag # ""
                 /\ ~HasKey(headers, "If-None-Match")
              THEN SetProp(headers, "If-None-Match", cacheData.etag)
              ELSE headers
    IN  IF cacheData.lastModified # Undefined /\ cacheData.lastModified # ""
           /\ ~HasKey(headers, "If-Modified-Since")
        THEN SetProp(h1, "If-Modified-Since", cacheData.lastModified)
        ELSE h1

addConditionalHeaders(headers, cacheData) ==
    LET h1 == IF cacheData.etag # Undefined /\ cacheData.etag # ""
              THEN SetProp(headers, "If-None-Match", cacheData.etag)
              ELSE headers
    IN  IF cacheData.lastModified # Undefined /\ cacheData.lastModified # ""
        THEN SetProp(h1, "If-Modified-Since", cacheData.lastModified)
        ELSE h1

\* -------------------------------------------------------------- responses
\* isApiResponse that asks for the data member only
isApiResponse_DataOnly(parsed) ==
    /\ parsed.isObject
    /\ HasKey(parsed.members, "data")

isApiResponse(parsed) ==
    /\ parsed.isObject
    /\ HasKey(parsed.members, "object")
    /\ HasKey(parsed.members, "url")
    /\ HasKey(parsed.members, "data")

IsOk(status) == status >= 200 /\ status <= 299

\* the error response.json() throws on a body that is not JSON
jsonError(body) == "Invalid JSON"

Resolved(data) == [state |-> "resolved", data |-> data, error |-> "", status |-> 0]
Rejected(error, status) == [state |-> "rejected", data |-> Undefined, error |-> error, status |-> status]
Pending == [state |-> "pending", data |-> Undefined, error |-> "", status |-> 0]

\* handleResponse with `cached?.data` in place of the null test
handleResponse_OptionalChaining(response, cached) ==
    IF response.status = NOT_MODIFIED
    THEN IF cached = Null THEN Resolved(Undefined) ELSE Resolved(cached.data)
    ELSE IF ~IsOk(response.status)
    THEN Rejected("HTTP error! status: ", response.status)
    ELSE IF ~response.body.parses
    THEN Rejected(jsonError(response.body), 0)
    ELSE IF isApiResponse(response.body)
    THEN Resolved(GetProp(response.body.members, "data"))
    ELSE Rejected("Invalid response format", 0)

\* handleResponse that serves the cached payload when the server errs
handleResponse_StaleIfError(response, cached) ==
    IF response.status = NOT_MODIFIED
    THEN IF cached = Null
         THEN Rejected("Cache miss on 304 response", 0)
         ELSE Resolved(cached.data)
    ELSE IF ~IsOk(response.status)
    THEN IF cached = Null
         THEN Rejected("HTTP error! status: ", response.status)
         ELSE Resolved(cached.data)
    ELSE IF ~response.body.parses
    THEN Rejected(jsonError(response.body), 0)
    ELSE IF isApiResponse(response.body)
    THEN Resolved(GetProp(response.body.members, "data"))
    ELSE Rejected("Invalid response format", 0)

\* handleResponse: the value it returns or the error it throws.
handleResponse(response, cached) ==
    IF response.status = NOT_MODIFIED
    THEN IF cached = Null
         THEN Rejected("Cache miss on 304 response", 0)
         ELSE Resolved(cached.data)
    ELSE IF ~IsOk(response.status)
    THEN Rejected("HTTP error! status: ", response.status)
    ELSE IF ~response.body.parses
    THEN Rejected(jsonError(response.body), 0)
    ELSE IF isApiResponse(response.body)
    THEN Resolved(GetProp(response.body.members, "data"))
    ELSE Rejected("Invalid response format", 0)

\* what `await response.json()` throws inside handleResponse, "" if it is
\* not reached or returns
jsonThrown(response) ==
    IF response.status # NOT_MODIFIED /\ IsOk(response.status) /\ ~response.body.parses
    THEN jsonError(response.body) ELSE ""

\* updateCache without its ttl test
updateCacheWrites_Always(ttl) == ttl >= 0

\* updateCache: whether setCache is called
updateCacheWrites(ttl) == ttl > 0

\* handleCachedResponse: whether getCached is called
handleCachedResponseReads(ttl) == ttl > 0

\* ------------------------------------------------------------------ inputs
Endpoints == {"subjects"}
UpdatedAfters == {Undefined}
\* with and without the filter, and two dates
DatedUpdatedAfters == {Undefined, "date1", "date2"}
TTLs == {0, 1}
SharedTTLs == {1}
Payloads == {"d1", "d2"}
\* the ETag and Last-Modified headers of a response (Undefined: not sent)
Validators == { << Undefined, Undefined >>, << "e1", Undefined >>,
                << Undefined, "m1" >>, << "e1", "m1" >> }

\* options: none (what the endpoints pass), and the three library headers
\* spelled out by the caller.
OptionsSet ==
    { RequestInit(Undefined, FALSE, << >>, Undefined),
      RequestInit(Undefined, TRUE, baseHeaders("key1"), Undefined) }

\* options that set method and body, add a header, replace a library header,
\* and carry header values that are not strings
SendOptions ==
    { RequestInit(Undefined, FALSE, << >>, Undefined),
      RequestInit("PUT", FALSE, << >>, "b1"),
      RequestInit(Undefined, TRUE, << Header("X-Trace", "t") >>, Undefined),
      RequestInit("PUT", TRUE, << Header("Authorization", "Basic x") >>, "b1"),
      RequestInit(Undefined, TRUE,
                  << Header("Content-Type", "#42"), Header("X-Num", "#42"),
                     Header("Accept", "a") >>, Undefined) }

BodyValid(d) ==
    Text(TRUE, TRUE, << Header("object", "collection"), Header("url", "test"), Header("data", d) >>)
BodyNoData == Text(TRUE, TRUE, << Header("object", "collection"), Header("url", "test") >>)
BodyNoObject == Text(TRUE, TRUE, << Header("url", "test"), Header("data", "d1") >>)
BodyNoUrl == Text(TRUE, TRUE, << Header("object", "collection"), Header("data", "d1") >>)
BodyNotObject == Text(TRUE, FALSE, << >>)
BodyUnparseable == Text(FALSE, FALSE, << >>)

BadBodies == {BodyNoData, BodyNoObject, BodyNoUrl, BodyNotObject, BodyUnparseable}

Bodies == {BodyValid(d) : d \in Payloads} \cup BadBodies

Response(status, etag, lastModified, body) ==
    [status |-> status, etag |-> etag, lastModified |-> lastModified, body |-> body]

\* 2xx with every body and validator; one more 2xx status; 304; two errors.
\* The headers of a response whose body is rejected are never read.
Responses ==
    { Response(200, v[1], v[2], BodyValid(d)) : v \in Validators, d \in Payloads }
    \cup { Response(200, Undefined, Undefined, b) : b \in BadBodies }
    \cup { Response(201, "e1", Undefined, BodyValid("d1")) }
    \cup { Response(NOT_MODIFIED, v[1], v[2], BodyUnparseable) : v \in Validators }
    \cup { Response(st, Undefined, Undefined, BodyNoData) : st \in {401, 500} }

NoResponse == Response(0, Undefined, Undefined, BodyUnparseable)

\* What fetch rejects with when no response arrives.
TransportErrors == {"Network error", "ECONNRESET"}

\* What an out-of-band writer can leave in a cache file.
CorruptTexts ==
    { Text(FALSE, FALSE, << >>),
      Text(TRUE, TRUE, << Header("etag", "e1") >>),
      Text(TRUE, TRUE, << Header("data", "d1"), Header("etag", "#42") >>) }

\* ------------------------------------------------------------------- state
VARIABLES
    files,      \* the cache directory's regular *.json files: cache key -> [text, mtime]
    now,        \* Date.now()
    calls,      \* the calls of request(): locals, position and outcome
    others,     \* the other entries of the cache directory: name -> [isFile, json, mtime]
    prune,      \* the call of cleanOldCaches(): locals, position and outcome
    fp,         \* two argument lists of generateCacheKey and the keys returned
    api         \* one WaniKaniAPI client: construction, initialisation, endpoints and their uses

vars == << files, now, calls, others, prune, fp, api >>

File(text, mtime) == [text |-> text, mtime |-> mtime]

IdleCall ==
    [ pc |-> "idle",
      apiKey |-> "key1", endpoint |-> "subjects",
      options |-> RequestInit(Undefined, FALSE, << >>, Undefined),
      ttl |-> 0, updatedAfter |-> Undefined,
      headers |-> << >>, cached |-> Null, response |-> NoResponse,
      data |-> Undefined, result |-> Pending,
      \* what the call did, as a test's mocks would record it
      prior |-> {},           \* the calls that had settled when this one was made
      netCalls |-> 0,         \* calls of fetch
      reads |-> {},           \* keys passed to fs.stat / fs.readFile
      fsError |-> FALSE,      \* fs.stat or fs.readFile failed on an existing file
      expired |-> FALSE,      \* fs.stat found the file with age >= ttl
      thrown |-> "",          \* the error fetch or response.json() threw
      writes |-> {},          \* keys passed to fs.writeFile
      writeFailed |-> FALSE,  \* fs.mkdir or fs.writeFile threw
      gone |-> FALSE ]        \* the looked-up entry's file was missing when fetch returned

\* cleanOldCaches not called
IdlePrune ==
    [ pc |-> "idle", maxAge |-> 0, start |-> 0,
      listing |-> {},         \* jsonFiles
      toStat |-> {},          \* cleanCacheFile awaiting fs.stat
      toUnlink |-> {},        \* cleanCacheFile awaiting fs.unlink
      finished |-> {},        \* cleanCacheFile returned
      \* what the call did, as a test's mocks would record it
      readdirFailed |-> FALSE,
      statFailed |-> {}, unlinkFailed |-> {},
      sawOld |-> {},          \* fs.stat gave an age > maxAge
      deleted |-> {},         \* fs.unlink removed the file
      unlinkedYoung |-> {},   \* ... when its age was <= maxAge
      warned |-> FALSE,       \* console.warn was called
      result |-> "pending" ]

\* generateCacheKey not called
NoArgs == [ pathname |-> "", search |-> << >>,
            options |-> RequestInit(Undefined, FALSE, << >>, Undefined),
            apiKey |-> "key1" ]
NoKey == [ none |-> TRUE ]
IdleFp == [ pc |-> "idle", a |-> NoArgs, b |-> NoArgs, ka |-> NoKey, kb |-> NoKey ]

\* a JavaScript number: num/den, NaN as 0/0
Num(num, den) == [num |-> num, den |-> den]
NaN == Num(0, 0)

\* an object without own properties: {}
EmptyObject == << >>
NoHandler == [ none |-> TRUE ]

\* what user.get() came to: not called, rejected with error, or resolved with
\* user data whose subscription is null (subscribed = FALSE) or grants levels
UserOutcome(state, error, subscribed, max_level_granted) ==
    [ state |-> state, error |-> error, subscribed |-> subscribed,
      max_level_granted |-> max_level_granted ]
NoUserOutcome == UserOutcome("none", "", FALSE, 0)

\* a use of the client by its caller: what was done and what came of it
Use(op, prop, method, level) ==
    [ op |-> op,                 \* "access" | "read" | "write" | "isContentAccessible"
      prop |-> prop,             \* the endpoint property
      method |-> method,         \* the endpoint method called
      level |-> level,           \* the argument of isContentAccessible
      defined |-> FALSE,         \* the property was not undefined
      sameHandler |-> FALSE,     \* the endpoint's handler is the client's
      ttl |-> 0,                 \* ttl handed to request.request
      handed |-> FALSE,          \* request.request was called
      userRequests |-> 0,        \* calls of user.get()
      user |-> NoUserOutcome,    \* what user.get() came to
      state |-> "pending",       \* of the promise returned
      value |-> FALSE,           \* it resolved with
      error |-> "" ]             \* it rejected with

\* new WaniKaniAPI(...) not evaluated yet
IdleApi ==
    [ pc |-> "new",
      arg |-> Undefined,          \* constructor argument apiKey
      env |-> Undefined,          \* process.env.WANIKANI_API_KEY
      cacheTTL |-> EmptyObject,   \* config.cacheTTL
      apiKey |-> Undefined,       \* this.apiKey
      depth |-> 0,                \* directories from currentDir up to the root
      pkgName |-> Undefined,
      cacheDir |-> Undefined,     \* this.cacheDir
      request |-> NoHandler,      \* this.request
      endpoints |-> EmptyObject,  \* the endpoint properties that are not undefined
      thrown |-> "",              \* the constructor threw
      initStarted |-> FALSE,      \* initCache() was called
      initError |-> "",           \* initPromise rejected with
      readFiles |-> 0,            \* calls of fs.readFile
      uses |-> << >> ]            \* the caller's uses of the client, in order

Init ==
    /\ files = << >>
    /\ now = 0
    /\ calls = [c \in Calls |-> IdleCall]
    /\ others = << >>
    /\ prune = IdlePrune
    /\ fp = IdleFp
    /\ api = IdleApi

url(c) == buildRequestUrl(calls[c].endpoint, calls[c].updatedAfter)

\* the key getCached looks up: generateCacheKey(url.pathname + url.search, options)
readKey(c) == generateCacheKey(url(c), calls[c].options, calls[c].apiKey)

\* the key setCache writes: generateCacheKey(..., context.options)
writeKey(c) ==
    generateCacheKey(url(c), contextOptions(calls[c].options, calls[c].headers), calls[c].apiKey)

Settle(c, result) ==
    [calls EXCEPT ![c].pc = "done", ![c].result = result]

\* ----------------------------------------------------------------- request
\* request(), up to its first await: prepareHeaders, buildRequestUrl, context,
\* and the ttl test of handleCachedResponse.
StartOf(c, apiKeys, optionsSet, ttls, updatedAfters) ==
    /\ calls[c].pc = "idle"
    /\ \A d \in Calls : d < c => calls[d].pc # "idle"
    /\ \E apiKey \in apiKeys, endpoint \in Endpoints, options \in optionsSet,
          ttl \in ttls, updatedAfter \in updatedAfters :
            calls' = [calls EXCEPT ![c] =
                        [ IdleCall EXCEPT
                            !.pc = IF handleCachedResponseReads(ttl) THEN "stat" ELSE "fetch",
                            !.apiKey = apiKey, !.endpoint = endpoint, !.options = options,
                            !.ttl = ttl, !.updatedAfter = updatedAfter,
                            !.headers = prepareHeaders(options, apiKey),
                            !.prior = {d \in Calls : calls[d].pc = "done"} ]]
    /\ UNCHANGED << files, now >>
    /\ UNCHANGED << others, prune, fp, api >>

\* Stat that still accepts a file aged exactly ttl
Stat_AgeInclusive(c) ==
    /\ calls[c].pc = "stat"
    /\ \E ioError \in (IF readKey(c) \in DOMAIN files THEN BOOLEAN ELSE {FALSE}) :
         LET key == readKey(c) IN
         calls' = [calls EXCEPT
            ![c].reads = @ \cup {key},
            ![c].fsError = @ \/ ioError,
            ![c].expired = /\ ~ioError
                           /\ key \in DOMAIN files
                           /\ now - files[key].mtime >= calls[c].ttl,
            ![c].pc = IF ~ioError /\ key \in DOMAIN files
                         /\ now - files[key].mtime <= calls[c].ttl
                      THEN "readFile" ELSE "fetch"]
    /\ UNCHANGED << files, now >>
    /\ UNCHANGED << others, prune, fp, api >>

\* request() without updatedAfter
StartWith(c, apiKeys, optionsSet, ttls) ==
    StartOf(c, apiKeys, optionsSet, ttls, UpdatedAfters)

\* request() on the one handler
Start(c) == StartWith(c, ApiKeys, OptionsSet, TTLs)

\* request() on one of two handlers that were constructed with the same
\* cacheDir and different api keys
StartShared(c) == StartWith(c, SharedApiKeys, OptionsSet, SharedTTLs)

\* request() with the options a caller may pass, without cache
StartSend(c) == StartWith(c, ApiKeys, SendOptions, {0})

\* getCached: await fs.stat(cacheFile), then the age test.
Stat(c) ==
    /\ calls[c].pc = "stat"
    /\ \E ioError \in (IF readKey(c) \in DOMAIN files THEN BOOLEAN ELSE {FALSE}) :
         LET key == readKey(c) IN
         calls' = [calls EXCEPT
            ![c].reads = @ \cup {key},
            ![c].fsError = @ \/ ioError,
            ![c].expired = /\ ~ioError
                           /\ key \in DOMAIN files
                           /\ now - files[key].mtime >= calls[c].ttl,
            ![c].pc = IF ~ioError /\ key \in DOMAIN files
                         /\ now - files[key].mtime < calls[c].ttl
                      THEN "readFile" ELSE "fetch"]
    /\ UNCHANGED << files, now >>
    /\ UNCHANGED << others, prune, fp, api >>

\* ReadFile that returns a fresh entry without going to the network
ReadFile_ShortCircuit(c) ==
    /\ calls[c].pc = "readFile"
    /\ \E ioError \in (IF readKey(c) \in DOMAIN files THEN BOOLEAN ELSE {FALSE}) :
         LET key == readKey(c)
             hit == /\ ~ioError
                    /\ key \in DOMAIN files
                    /\ files[key].text.parses
                    /\ isCacheData(files[key].text)
             entry == AsCacheData(files[key].text)
         IN calls' = IF hit
                     THEN [Settle(c, Resolved(entry.data)) EXCEPT ![c].cached = entry]
                     ELSE [calls EXCEPT ![c].pc = "fetch", ![c].fsError = @ \/ ioError]
    /\ UNCHANGED << files, now >>
    /\ UNCHANGED << others, prune, fp, api >>

\* getCached: await fs.readFile, JSON.parse, isCacheData; then
\* handleCachedResponse adds the conditional headers.
ReadFile(c) ==
    /\ calls[c].pc = "readFile"
    /\ \E ioError \in (IF readKey(c) \in DOMAIN files THEN BOOLEAN ELSE {FALSE}) :
         LET key == readKey(c)
             hit == /\ ~ioError
                    /\ key \in DOMAIN files
                    /\ files[key].text.parses
                    /\ isCacheData(files[key].text)
             entry == AsCacheData(files[key].text)
         IN calls' = [calls EXCEPT
                ![c].pc = "fetch",
                ![c].fsError = @ \/ ioError,
                ![c].cached = IF hit THEN entry ELSE Null,
                ![c].headers = IF hit THEN addConditionalHeaders(@, entry) ELSE @]
    /\ UNCHANGED << files, now >>
    /\ UNCHANGED << others, prune, fp, api >>

\* Fetch that wraps a transport failure in an error of its own
Fetch_WrapsError(c) ==
    /\ calls[c].pc = "fetch"
    /\ \/ \E r \in Responses :
            calls' = [calls EXCEPT ![c].pc = "handleResponse", ![c].response = r,
                                   ![c].netCalls = @ + 1,
                                   ![c].gone = calls[c].cached # Null
                                               /\ readKey(c) \notin DOMAIN files]
       \/ \E e \in TransportErrors :
            calls' = [Settle(c, Rejected("Request failed", 0)) EXCEPT
                        ![c].netCalls = @ + 1, ![c].thrown = e]
    /\ UNCHANGED << files, now >>
    /\ UNCHANGED << others, prune, fp, api >>

\* await fetch(url, context.options): a response or a transport failure.
FetchFrom(c, responses) ==
    /\ calls[c].pc = "fetch"
    /\ \/ \E r \in responses :
            calls' = [calls EXCEPT ![c].pc = "handleResponse", ![c].response = r,
                                   ![c].netCalls = @ + 1,
                                   ![c].gone = calls[c].cached # Null
                                               /\ readKey(c) \notin DOMAIN files]
       \/ \E e \in TransportErrors :
            calls' = [Settle(c, Rejected(e, 0)) EXCEPT ![c].netCalls = @ + 1,
                                                       ![c].thrown = e]
    /\ UNCHANGED << files, now >>
    /\ UNCHANGED << others, prune, fp, api >>

Fetch(c) == FetchFrom(c, Responses)

\* HandleResponse that drops the looked-up entry when the response is rejected
HandleResponse_Invalidate(c) ==
    /\ calls[c].pc = "handleResponse"
    /\ LET r == handleResponse(calls[c].response, calls[c].cached) IN
        /\ calls' = IF r.state = "rejected" THEN Settle(c, r)
                    ELSE IF updateCacheWrites(calls[c].ttl)
                    THEN [calls EXCEPT ![c].pc = "ensureCacheDir", ![c].data = r.data]
                    ELSE [Settle(c, r) EXCEPT ![c].data = r.data]
        /\ files' = IF r.state = "rejected"
                    THEN [x \in (DOMAIN files) \ {readKey(c)} |-> files[x]]
                    ELSE files
    /\ UNCHANGED now
    /\ UNCHANGED << others, prune, fp, api >>

\* await handleResponse(response, cached), then the ttl test of updateCache.
HandleResponse(c) ==
    /\ calls[c].pc = "handleResponse"
    /\ LET r == handleResponse(calls[c].response, calls[c].cached) IN
        calls' = IF r.state = "rejected"
                 THEN [Settle(c, r) EXCEPT ![c].thrown = jsonThrown(calls[c].response)]
                 ELSE IF updateCacheWrites(calls[c].ttl)
                 THEN [calls EXCEPT ![c].pc = "ensureCacheDir", ![c].data = r.data]
                 ELSE [Settle(c, r) EXCEPT ![c].data = r.data]
    /\ UNCHANGED << files, now >>
    /\ UNCHANGED << others, prune, fp, api >>

\* setCache: await fs.mkdir(cacheDir, { recursive: true })
EnsureCacheDir(c) ==
    /\ calls[c].pc = "ensureCacheDir"
    /\ \E ok \in BOOLEAN :
         calls' = IF ok THEN [calls EXCEPT ![c].pc = "writeFile"]
                  ELSE [Settle(c, Rejected("mkdir failed", 0)) EXCEPT ![c].writeFailed = TRUE]
    /\ UNCHANGED << files, now >>
    /\ UNCHANGED << others, prune, fp, api >>

\* WriteFile whose failure hands the caller the error and the payload
WriteFile_ErrorWithData(c) ==
    /\ calls[c].pc = "writeFile"
    /\ LET key == writeKey(c)
           cacheData == CacheData(calls[c].data, calls[c].response.etag,
                                  calls[c].response.lastModified)
       IN \/ /\ files' = (key :> File(JSONstringify(cacheData), now)) @@ files
             /\ calls' = [Settle(c, Resolved(calls[c].data)) EXCEPT ![c].writes = @ \cup {key}]
          \/ /\ files' \in {files, (key :> File(Text(FALSE, FALSE, << >>), now)) @@ files}
             /\ calls' = [Settle(c, [Rejected("Write failed", 0) EXCEPT !.data = calls[c].data])
                            EXCEPT ![c].writes = @ \cup {key}, ![c].writeFailed = TRUE]
    /\ UNCHANGED << now >>
    /\ UNCHANGED << others, prune, fp, api >>

\* setCache: await fs.writeFile(cacheFile, JSON.stringify(cacheData)); then
\* request returns data.  A failed write leaves the file as it was or
\* truncated.
WriteFile(c) ==
    /\ calls[c].pc = "writeFile"
    /\ LET key == writeKey(c)
           cacheData == CacheData(calls[c].data, calls[c].response.etag,
                                  calls[c].response.lastModified)
       IN \/ /\ files' = (key :> File(JSONstringify(cacheData), now)) @@ files
             /\ calls' = [Settle(c, Resolved(calls[c].data)) EXCEPT ![c].writes = @ \cup {key}]
          \/ /\ files' \in {files, (key :> File(Text(FALSE, FALSE, << >>), now)) @@ files}
             /\ calls' = [Settle(c, Rejected("Write failed", 0)) EXCEPT
                            ![c].writes = @ \cup {key}, ![c].writeFailed = TRUE]
    /\ UNCHANGED << now >>
    /\ UNCHANGED << others, prune, fp, api >>

\* ------------------------------------------------------------- environment
Tick ==
    /\ now < MaxTime
    /\ now' = now + 1
    /\ UNCHANGED << files, calls >>
    /\ UNCHANGED << others, prune, fp, api >>

\* a cache file is removed out of band
ExternalDelete ==
    /\ \E k \in DOMAIN files :
         files' = [x \in (DOMAIN files) \ {k} |-> files[x]]
    /\ UNCHANGED << now, calls >>
    /\ UNCHANGED << others, prune, fp, api >>

\* a cache file is overwritten out of band with something that is not an entry
ExternalCorrupt ==
    /\ \E k \in DOMAIN files, t \in CorruptTexts :
         /\ files[k].text # t
         /\ files' = [files EXCEPT ![k] = File(t, now)]
    /\ UNCHANGED << now, calls >>
    /\ UNCHANGED << others, prune, fp, api >>

Next ==
    \/ \E c \in Calls : Start(c)
    \/ \E c \in Calls : Stat(c)
    \/ \E c \in Calls : ReadFile(c)
    \/ \E c \in Calls : Fetch(c)
    \/ \E c \in Calls : HandleResponse(c)
    \/ \E c \in Calls : EnsureCacheDir(c)
    \/ \E c \in Calls : WriteFile(c)
    \/ Tick
    \/ ExternalDelete
    \/ ExternalCorrupt

Spec == Init /\ [][Next]_vars

\* two handlers on one cache directory
NextShared ==
    \/ \E c \in Calls : StartShared(c)
    \/ \E c \in Calls : Stat(c)
    \/ \E c \in Calls : ReadFile(c)
    \/ \E c \in Calls : Fetch(c)
    \/ \E c \in Calls : HandleResponse(c)
    \/ \E c \in Calls : EnsureCacheDir(c)
    \/ \E c \in Calls : WriteFile(c)
    \/ Tick
    \/ ExternalDelete
    \/ ExternalCorrupt

SpecShared == Init /\ [][NextShared]_vars

\* ------------------------------------------------- fs.writeFile, in steps
\* fs.writeFile opens the file with flag 'w', which empties it, and then
\* writes the text at its own offset, chunk by chunk.  The text of an entry
\* is taken in two chunks: {"data":...  and  ,"etag":...,"lastModified":...}
\* The payloads have one length, so the second chunk starts at one offset.
NoData == "\\0"
Region2(state, etag, lastModified) ==
    [state |-> state, etag |-> etag, lastModified |-> lastModified]
NoRegion2 == Region2("none", Undefined, Undefined)

\* the length of the second chunk, up to order
Len2(r2) ==
    IF r2.state = "none" THEN 0
    ELSE (IF r2.etag # Undefined THEN 2 ELSE 0)
         + (IF r2.lastModified # Undefined THEN 3 ELSE 0) + 1

\* what JSON.parse makes of the bytes in the file
TextOf(r1, r2) ==
    IF r1 # NoData /\ r2.state = "ok"
    THEN JSONstringify(CacheData(r1, r2.etag, r2.lastModified))
    ELSE Text(FALSE, FALSE, << >>)

PartFile(r1, r2, mtime) ==
    [text |-> TextOf(r1, r2), mtime |-> mtime, r1 |-> r1, r2 |-> r2]

RaceOptions == { RequestInit(Undefined, TRUE, baseHeaders("key1"), Undefined) }

RaceResponses ==
    { Response(200, "e1", Undefined, BodyValid("d1")),
      Response(200, "e2", Undefined, BodyValid("d2")),
      Response(200, Undefined, Undefined, BodyValid("d2")),
      Response(NOT_MODIFIED, "e1", Undefined, BodyUnparseable) }

StartRace(c) == StartWith(c, ApiKeys, RaceOptions, SharedTTLs)

FetchRace(c) == FetchFrom(c, RaceResponses)

\* fs.writeFile: open(cacheFile, 'w')
WriteOpen(c) ==
    /\ calls[c].pc = "writeFile"
    /\ files' = (writeKey(c) :> PartFile(NoData, NoRegion2, now)) @@ files
    /\ calls' = [calls EXCEPT ![c].pc = "chunk1", ![c].writes = @ \cup {writeKey(c)}]
    /\ UNCHANGED << now, others, prune, fp, api >>

\* fs.writeFile: the first chunk, at offset 0
WriteChunk1(c) ==
    /\ calls[c].pc = "chunk1"
    /\ LET key == writeKey(c) IN
         files' = [files EXCEPT ![key] = PartFile(calls[c].data, @.r2, now)]
    /\ calls' = [calls EXCEPT ![c].pc = "chunk2"]
    /\ UNCHANGED << now, others, prune, fp, api >>

\* fs.writeFile: the last chunk, over what is at its offset; bytes of a
\* longer chunk written before stay behind it.  Then request returns data.
WriteChunk2(c) ==
    /\ calls[c].pc = "chunk2"
    /\ LET key == writeKey(c)
           mine == Region2("ok", calls[c].response.etag, calls[c].response.lastModified)
           r2 == IF Len2(mine) >= Len2(files[key].r2) THEN mine
                 ELSE Region2("garbage", Undefined, Undefined)
       IN files' = [files EXCEPT ![key] = PartFile(@.r1, r2, now)]
    /\ calls' = Settle(c, Resolved(calls[c].data))
    /\ UNCHANGED << now, others, prune, fp, api >>

NextRace ==
    \/ \E c \in Calls : StartRace(c)
    \/ \E c \in Calls : Stat(c)
    \/ \E c \in Calls : ReadFile(c)
    \/ \E c \in Calls : FetchRace(c)
    \/ \E c \in Calls : HandleResponse(c)
    \/ \E c \in Calls : EnsureCacheDir(c)
    \/ \E c \in Calls : WriteOpen(c)
    \/ \E c \in Calls : WriteChunk1(c)
    \/ \E c \in Calls : WriteChunk2(c)

SpecRace == Init /\ [][NextRace]_vars

\* ------------------------------------------------------- awaits complete
LiveResponses ==
    RaceResponses \cup { Response(401, Undefined, Undefined, BodyNoData),
                         Response(200, Undefined, Undefined, BodyNoUrl),
                         Response(200, Undefined, Undefined, BodyUnparseable) }

FetchLive(c) == FetchFrom(c, LiveResponses)

\* a step of call c: the operation it awaits completes
Step(c) ==
    \/ Stat(c)
    \/ ReadFile(c)
    \/ FetchLive(c)
    \/ HandleResponse(c)
    \/ EnsureCacheDir(c)
    \/ WriteFile(c)

NextLive ==
    \/ \E c \in Calls : Start(c)
    \/ \E c \in Calls : Step(c)
    \/ Tick
    \/ ExternalDelete

\* every filesystem and network operation a call awaits completes
SpecLive ==
    /\ Init
    /\ [][NextLive]_vars
    /\ \A c \in Calls : WF_vars(Step(c))

\* calls without cache (ttl 0)
NextSend ==
    \/ \E c \in Calls : StartSend(c)
    \/ \E c \in Calls : Fetch(c)
    \/ \E c \in Calls : HandleResponse(c)

SpecSend == Init /\ [][NextSend]_vars

\* ------------------------------------------------------------ updatedAfter
\* request() with and without updatedAfter, with cache
StartDated(c) == StartOf(c, ApiKeys, RaceOptions, SharedTTLs, DatedUpdatedAfters)

NextDated ==
    \/ \E c \in Calls : StartDated(c)
    \/ \E c \in Calls : Stat(c)
    \/ \E c \in Calls : ReadFile(c)
    \/ \E c \in Calls : FetchRace(c)
    \/ \E c \in Calls : HandleResponse(c)
    \/ \E c \in Calls : EnsureCacheDir(c)
    \/ \E c \in Calls : WriteFile(c)
    \/ Tick

SpecDated == Init /\ [][NextDated]_vars

\* ------------------------------------------------------ conditional headers
\* options: none; the three library headers; these and validators of the
\* caller's own
CondOptions ==
    { RequestInit(Undefined, FALSE, << >>, Undefined),
      RequestInit(Undefined, TRUE, baseHeaders("key1"), Undefined),
      RequestInit(Undefined, TRUE,
                  baseHeaders("key1") \o << Header("If-None-Match", "stale"),
                                           Header("If-Modified-Since", "old") >>,
                  Undefined) }

\* responses with no validator, with an empty one, with one and with both
CondResponses ==
    { Response(200, Undefined, Undefined, BodyValid("d2")),
      Response(200, "", "m1", BodyValid("d1")),
      Response(200, "e1", Undefined, BodyValid("d1")),
      Response(200, "e1", "m1", BodyValid("d1")),
      Response(NOT_MODIFIED, Undefined, Undefined, BodyUnparseable) }

StartCond(c) == StartWith(c, ApiKeys, CondOptions, TTLs)

FetchCond(c) == FetchFrom(c, CondResponses)

NextCond ==
    \/ \E c \in Calls : StartCond(c)
    \/ \E c \in Calls : Stat(c)
    \/ \E c \in Calls : ReadFile(c)
    \/ \E c \in Calls : FetchCond(c)
    \/ \E c \in Calls : HandleResponse(c)
    \/ \E c \in Calls : EnsureCacheDir(c)
    \/ \E c \in Calls : WriteFile(c)
    \/ Tick

SpecCond == Init /\ [][NextCond]_vars

\* ---------------------------------------------------------- cleanOldCaches
MaxAges == {0, 1}
FileTimes == (0 - MaxFileAge)..0

\* the cache files of two requests
PruneKeys ==
    { generateCacheKey(buildRequestUrl(e, Undefined),
                       RequestInit(Undefined, FALSE, << >>, Undefined), "key1") :
        e \in {"subjects", "user"} }

EntryText == JSONstringify(CacheData("d1", Undefined, Undefined))

\* a sub-directory and a file that is not a cache file
OtherEntries ==
    ([other |-> "dir.json"] :> [isFile |-> FALSE, json |-> TRUE, mtime |-> 0 - MaxFileAge])
    @@ ([other |-> "notes.txt"] :> [isFile |-> TRUE, json |-> FALSE, mtime |-> 0 - MaxFileAge])

\* fs.readdir(cacheDir, { withFileTypes: true })
Dirents ==
    { [name |-> k, isFile |-> TRUE, json |-> TRUE] : k \in DOMAIN files }
    \cup { [name |-> n, isFile |-> others[n].isFile, json |-> others[n].json] :
             n \in DOMAIN others }

\* files.filter(file => file.isFile() && file.name.endsWith('.json'))
jsonFiles == { d.name : d \in { e \in Dirents : e.isFile /\ e.json } }

InitPrune ==
    /\ \E present \in SUBSET PruneKeys :
          files \in [present -> {File(EntryText, t) : t \in FileTimes}]
    /\ now = 0
    /\ calls = [c \in Calls |-> IdleCall]
    /\ others \in {<< >>, OtherEntries}
    /\ prune = IdlePrune
    /\ fp = IdleFp
    /\ api = IdleApi

\* cleanOldCaches(maxAge) is called
CleanOldCaches ==
    /\ prune.pc = "idle"
    /\ \E maxAge \in MaxAges :
         prune' = [IdlePrune EXCEPT !.pc = "readdir", !.maxAge = maxAge, !.start = now]
    /\ UNCHANGED << files, now, calls, others, fp, api >>

\* await fs.readdir, the filter, and the calls of cleanCacheFile up to their
\* first await; a failure goes to the catch, which warns and returns.
Readdir ==
    /\ prune.pc = "readdir"
    /\ \E ok \in BOOLEAN :
         prune' = IF ok
                  THEN [prune EXCEPT !.pc = "clean", !.listing = jsonFiles,
                                     !.toStat = jsonFiles]
                  ELSE [prune EXCEPT !.pc = "done", !.readdirFailed = TRUE,
                                     !.warned = TRUE, !.result = "resolved"]
    /\ UNCHANGED << files, now, calls, others, fp, api >>

\* cleanCacheFile that also removes a file aged exactly maxAge
CleanCacheFileStat_Inclusive(f) ==
    /\ prune.pc = "clean"
    /\ f \in prune.toStat
    /\ \E ioError \in (IF f \in DOMAIN files THEN BOOLEAN ELSE {FALSE}) :
         LET ok == ~ioError /\ f \in DOMAIN files IN
         prune' = IF ok /\ now - files[f].mtime >= prune.maxAge
                  THEN [prune EXCEPT !.toStat = @ \ {f}, !.toUnlink = @ \cup {f},
                                     !.sawOld = IF now - files[f].mtime > prune.maxAge
                                                THEN @ \cup {f} ELSE @]
                  ELSE IF ok
                  THEN [prune EXCEPT !.toStat = @ \ {f}, !.finished = @ \cup {f}]
                  ELSE [prune EXCEPT !.toStat = @ \ {f}, !.finished = @ \cup {f},
                                     !.statFailed = @ \cup {f}]
    /\ UNCHANGED << files, now, calls, others, fp, api >>

\* cleanCacheFile that removes every file it can stat, whatever its age
CleanCacheFileStat_NoAgeTest(f) ==
    /\ prune.pc = "clean"
    /\ f \in prune.toStat
    /\ \E ioError \in (IF f \in DOMAIN files THEN BOOLEAN ELSE {FALSE}) :
         LET ok == ~ioError /\ f \in DOMAIN files IN
         prune' = IF ok
                  THEN [prune EXCEPT !.toStat = @ \ {f}, !.toUnlink = @ \cup {f},
                                     !.sawOld = IF now - files[f].mtime > prune.maxAge
                                                THEN @ \cup {f} ELSE @]
                  ELSE [prune EXCEPT !.toStat = @ \ {f}, !.finished = @ \cup {f},
                                     !.statFailed = @ \cup {f}]
    /\ UNCHANGED << files, now, calls, others, fp, api >>

\* cleanCacheFile: await fs.stat(filePath), then the age test.  The catch
\* swallows a failure.
CleanCacheFileStat(f) ==
    /\ prune.pc = "clean"
    /\ f \in prune.toStat
    /\ \E ioError \in (IF f \in DOMAIN files THEN BOOLEAN ELSE {FALSE}) :
         LET ok == ~ioError /\ f \in DOMAIN files IN
         prune' = IF ok /\ now - files[f].mtime > prune.maxAge
                  THEN [prune EXCEPT !.toStat = @ \ {f}, !.toUnlink = @ \cup {f},
                                     !.sawOld = @ \cup {f}]
                  ELSE IF ok
                  THEN [prune EXCEPT !.toStat = @ \ {f}, !.finished = @ \cup {f}]
                  ELSE [prune EXCEPT !.toStat = @ \ {f}, !.finished = @ \cup {f},
                                     !.statFailed = @ \cup {f}]
    /\ UNCHANGED << files, now, calls, others, fp, api >>

\* cleanCacheFile without its try/catch: a failed unlink rejects Promise.all
\* and ends cleanOldCaches in its catch
CleanCacheFileUnlink_Throws(f) ==
    /\ prune.pc = "clean"
    /\ f \in prune.toUnlink
    /\ \E ioError \in (IF f \in DOMAIN files THEN BOOLEAN ELSE {FALSE}) :
         LET ok == ~ioError /\ f \in DOMAIN files IN
         IF ok
         THEN /\ files' = [x \in (DOMAIN files) \ {f} |-> files[x]]
              /\ prune' = [prune EXCEPT
                    !.toUnlink = @ \ {f}, !.finished = @ \cup {f},
                    !.deleted = @ \cup {f},
                    !.unlinkedYoung =
                        IF now - files[f].mtime <= prune.maxAge THEN @ \cup {f} ELSE @]
         ELSE /\ files' = files
              /\ prune' = [prune EXCEPT !.pc = "done", !.unlinkFailed = @ \cup {f},
                                         !.warned = TRUE, !.result = "resolved"]
    /\ UNCHANGED << now, calls, others, fp, api >>

\* cleanCacheFile: await fs.unlink(filePath).  The catch swallows a failure.
CleanCacheFileUnlink(f) ==
    /\ prune.pc = "clean"
    /\ f \in prune.toUnlink
    /\ \E ioError \in (IF f \in DOMAIN files THEN BOOLEAN ELSE {FALSE}) :
         LET ok == ~ioError /\ f \in DOMAIN files IN
         IF ok
         THEN /\ files' = [x \in (DOMAIN files) \ {f} |-> files[x]]
              /\ prune' = [prune EXCEPT
                    !.toUnlink = @ \ {f}, !.finished = @ \cup {f},
                    !.deleted = @ \cup {f},
                    !.unlinkedYoung =
                        IF now - files[f].mtime <= prune.maxAge THEN @ \cup {f} ELSE @]
         ELSE /\ files' = files
              /\ prune' = [prune EXCEPT !.toUnlink = @ \ {f}, !.finished = @ \cup {f},
                                         !.unlinkFailed = @ \cup {f}]
    /\ UNCHANGED << now, calls, others, fp, api >>

\* await Promise.all(...) returns once every cleanCacheFile has returned
CleanOldCachesReturn ==
    /\ prune.pc = "clean"
    /\ prune.toStat = {}
    /\ prune.toUnlink = {}
    /\ prune' = [prune EXCEPT !.pc = "done", !.result = "resolved"]
    /\ UNCHANGED << files, now, calls, others, fp, api >>

NextPrune ==
    \/ CleanOldCaches
    \/ Readdir
    \/ \E f \in PruneKeys : CleanCacheFileStat(f)
    \/ \E f \in PruneKeys : CleanCacheFileUnlink(f)
    \/ CleanOldCachesReturn
    \/ Tick
    \/ ExternalDelete
    \/ ExternalCorrupt

SpecPrune == InitPrune /\ [][NextPrune]_vars

\* setCache of a request call that runs beside cleanOldCaches:
\* fs.writeFile(cachePath, JSON.stringify(data)) makes the file new
SetCacheMeanwhile ==
    /\ \E k \in PruneKeys :
         /\ k \in DOMAIN files => files[k] # File(EntryText, now)
         /\ files' = (k :> File(EntryText, now)) @@ files
    /\ UNCHANGED << now, calls, others, prune, fp, api >>

\* cleanOldCaches beside request calls that write the cache
NextPruneWrite ==
    \/ CleanOldCaches
    \/ Readdir
    \/ \E f \in PruneKeys : CleanCacheFileStat(f)
    \/ \E f \in PruneKeys : CleanCacheFileUnlink(f)
    \/ CleanOldCachesReturn
    \/ Tick
    \/ ExternalDelete
    \/ ExternalCorrupt
    \/ SetCacheMeanwhile

SpecPruneWrite == InitPrune /\ [][NextPruneWrite]_vars

\* -------------------------------------------------------- generateCacheKey
\* Argument lists of generateCacheKey(endpoint, options) on a handler with
\* this.apiKey: endpoint is given by the pathname and the search parameters
\* that new URL(endpoint, 'https://base') makes of it.
KeyPaths == {"subjects", "user"}
KeySearches == { << >>, << Header("updated_after", ISO("date1")) >> }
KeyMethods == {Undefined, "GET", "PUT"}
KeyBodies == {Undefined, "b1", "b2"}
\* options.headers: left out, two orders of the same headers, one header more
KeyHeaders ==
    { << FALSE, << >> >>,
      << TRUE, << Header("Accept", "a"), Header("X-Trace", "t") >> >>,
      << TRUE, << Header("X-Trace", "t"), Header("Accept", "a") >> >>,
      << TRUE, << Header("Accept", "a"), Header("X-Trace", "t"), Header("X-More", "m") >> >> }

KeyArgs ==
    { [ pathname |-> p, search |-> q,
        options |-> RequestInit(m, h[1], h[2], b), apiKey |-> k ] :
        p \in KeyPaths, q \in KeySearches, m \in KeyMethods, h \in KeyHeaders,
        b \in KeyBodies, k \in SharedApiKeys }

KeyOf(args) ==
    generateCacheKey([pathname |-> args.pathname, search |-> args.search],
                     args.options, args.apiKey)

InitKey ==
    /\ files = << >>
    /\ now = 0
    /\ calls = [c \in Calls |-> IdleCall]
    /\ others = << >>
    /\ prune = IdlePrune
    /\ api = IdleApi
    /\ fp \in { [IdleFp EXCEPT !.pc = "args", !.a = a, !.b = b] : a \in KeyArgs, b \in KeyArgs }

\* generateCacheKey is applied to both argument lists
GenerateCacheKey ==
    /\ fp.pc = "args"
    /\ fp' = [fp EXCEPT !.pc = "done", !.ka = KeyOf(fp.a), !.kb = KeyOf(fp.b)]
    /\ UNCHANGED << files, now, calls, others, prune, api >>

NextKey == GenerateCacheKey

SpecKey == InitKey /\ [][NextKey]_vars

\* ---------------------------------------------------------------- WaniKaniAPI
MaxDepth == 2
MaxUses == 1

DEFAULT_TTL == 3600

EndpointNames ==
    { "user", "assignments", "subjects", "reviews", "reviewStatistics",
      "studyMaterials", "resets", "levelProgressions",
      "spacedRepetitionSystems", "summary", "voiceActors" }

ApiArgs == {Undefined, "", "key1"}
EnvKeys == {Undefined, "", "key2"}
KeyRequired == "WaniKani API key is required, either set the WANIKANI_API_KEY environment variable or pass it as an argument to the constructor."

\* config.cacheTTL: durations in seconds for some of the keys of CacheTTLConfig
ConfigKeys == {"reviews", "resets", "default"}
Durations == {0, 7}
CacheTTLConfigs == UNION { [S -> Durations] : S \in SUBSET ConfigKeys }

\* What fs.readFile and JSON.parse make of <currentDir>/package.json.
PackageJson(exists, parses, object, hasName, name) ==
    [ exists |-> exists, parses |-> parses, object |-> object,
      hasName |-> hasName, name |-> name ]
PackageJsons ==
    { PackageJson(FALSE, FALSE, FALSE, FALSE, Undefined),  \* readFile rejects
      PackageJson(TRUE, FALSE, FALSE, FALSE, Undefined),   \* not JSON
      PackageJson(TRUE, TRUE, FALSE, FALSE, Undefined),    \* JSON, not an object
      PackageJson(TRUE, TRUE, TRUE, FALSE, Undefined),     \* object without name
      PackageJson(TRUE, TRUE, TRUE, TRUE, "#42"),          \* name is a number
      PackageJson(TRUE, TRUE, TRUE, TRUE, "my-app"),
      PackageJson(TRUE, TRUE, TRUE, TRUE, "@scope/app") }

isPackageJson(value) ==
    value.object /\ value.hasName /\ typeof(value.name) = "string"

FallbackName == "wanikani-api"

\* cachedir(id) of the cachedir package: the ids of the model made of
\* [0-9a-zA-Z-] only get a directory, for the others it throws
PlainIds == {"my-app", FallbackName}
cachedirError(id) ==
    IF typeof(id) # "string" THEN "id is not a string"
    ELSE IF id = "" THEN "id cannot be empty"
    ELSE IF id \notin PlainIds THEN "id cannot contain special characters"
    ELSE ""
cachedir(id) == << ".cache", id >>

Handler(apiKey, cacheDir) == [ apiKey |-> apiKey, cacheDir |-> cacheDir ]

\* new Endpoint(request, cacheTTL), cacheTTL = {} by default
Endpoint(request, cacheTTL) == [ request |-> request, cacheTTL |-> cacheTTL ]

\* (this.cacheTTL[endpoint] ?? this.cacheTTL.default ?? Endpoint.DEFAULT_TTL) * 1000
getCacheTTL(cacheTTL, endpoint) ==
    ( IF endpoint \in DOMAIN cacheTTL THEN cacheTTL[endpoint]
      ELSE IF "default" \in DOMAIN cacheTTL THEN cacheTTL["default"]
      ELSE DEFAULT_TTL ) * 1000

\* the ttl makeRequest hands to request.request
makeRequestTTL(cacheTTL, ttlKey) ==
    IF ttlKey # Undefined THEN getCacheTTL(cacheTTL, ttlKey) ELSE 0

\* A number used as a property name is its decimal string.
PropertyKey(n) ==
    IF n = 24 * 60 * 60 THEN "86400"
    ELSE IF n = 60 * 60 THEN "3600"
    ELSE IF n = 60 THEN "60"
    ELSE "0"

\* The read methods of the endpoints: the property of the client, the
\* category of CacheTTLConfig their resource belongs to, and the third
\* argument they pass to makeRequest.
Method(prop, name, category, ttlKey) ==
    [ prop |-> prop, name |-> name, category |-> category, ttlKey |-> ttlKey ]
ReadMethods ==
    { Method("reviews", "getAll", "reviews", PropertyKey(24 * 60 * 60)),
      Method("reviews", "get", "reviews", PropertyKey(24 * 60 * 60)),
      Method("resets", "getAll", "resets", "resets"),
      Method("resets", "get", "resets", "resets"),
      Method("summary", "get", "summary", PropertyKey(60)) }

\* The mutating methods: a PUT or POST; some pass 0 as third argument of
\* makeRequest, the others leave it out.
MutatingMethods ==
    { Method("user", "update", "user", PropertyKey(0)),
      Method("reviews", "create", "reviews", PropertyKey(0)),
      Method("assignments", "start", "assignments", Undefined),
      Method("studyMaterials", "create", "studyMaterials", Undefined),
      Method("studyMaterials", "update", "studyMaterials", Undefined) }

\* the arguments of isContentAccessible
Levels == { Num(0 - 1, 1), Num(0, 1), Num(1, 1), Num(3, 1), Num(3, 2), NaN }
LessOrEqualZero(x) == x.den # 0 /\ x.num <= 0
IsInteger(x) == x.den # 0 /\ x.num % x.den = 0
GreaterOrEqual(n, x) == x.den # 0 /\ n * x.den >= x.num

LevelError == "Level must be a positive integer"
UndefinedError == "Cannot read properties of undefined"

UserOutcomes ==
    { UserOutcome("rejected", e, FALSE, 0) : e \in {"API Error"} }
    \cup { UserOutcome("resolved", "", FALSE, 0) }
    \cup { UserOutcome("resolved", "", TRUE, g) : g \in {1, 3} }

\* constructor: the key is resolved; without one it throws, otherwise
\* initCache() starts and runs up to its first await
Construct ==
    /\ api.pc = "new"
    /\ \E arg \in ApiArgs : \E env \in EnvKeys :
       \E cacheTTL \in CacheTTLConfigs : \E depth \in 0..MaxDepth :
          LET resolvedApiKey == IF arg # Undefined THEN arg ELSE env
          IN  IF typeof(resolvedApiKey) # "string" \/ resolvedApiKey = ""
              THEN api' = [api EXCEPT !.pc = "threw", !.arg = arg, !.env = env,
                                      !.thrown = KeyRequired]
              ELSE api' = [api EXCEPT
                              !.pc = IF depth = 0 THEN "initCache" ELSE "readFile",
                              !.arg = arg, !.env = env,
                              !.apiKey = resolvedApiKey,
                              !.cacheTTL = cacheTTL,
                              !.initStarted = TRUE,
                              !.depth = depth,
                              !.readFiles = IF depth = 0 THEN 0 ELSE 1,
                              !.pkgName = IF depth = 0 THEN FallbackName ELSE Undefined]
    /\ UNCHANGED << files, now, calls, others, prune, fp >>

\* findRootPackageName: the readFile of <currentDir>/package.json settles;
\* a package.json with a name ends the search, anything else moves it one
\* directory up, and at the root the fallback name is returned
ReadPackageJson ==
    /\ api.pc = "readFile"
    /\ \E parsed \in PackageJsons :
          IF parsed.exists /\ parsed.parses /\ isPackageJson(parsed)
          THEN api' = [api EXCEPT !.pc = "initCache", !.pkgName = parsed.name]
          ELSE IF api.depth = 1
          THEN api' = [api EXCEPT !.pc = "initCache", !.depth = 0,
                                  !.pkgName = FallbackName]
          ELSE api' = [api EXCEPT !.depth = @ - 1, !.readFiles = @ + 1]
    /\ UNCHANGED << files, now, calls, others, prune, fp >>

\* initCache after its await: cachedir(pkgName) and new WaniKaniRequest(...)
InitCache ==
    /\ api.pc = "initCache"
    /\ IF cachedirError(api.pkgName) # ""
       THEN api' = [api EXCEPT !.pc = "initFailed",
                               !.initError = cachedirError(api.pkgName)]
       ELSE api' = [api EXCEPT !.pc = "then",
                               !.cacheDir = cachedir(api.pkgName),
                               !.request = Handler(api.apiKey, cachedir(api.pkgName))]
    /\ UNCHANGED << files, now, calls, others, prune, fp >>

\* the callback of initCache().then: the endpoint properties are assigned
InitThen ==
    /\ api.pc = "then"
    /\ api' = [api EXCEPT
                  !.pc = "ready",
                  !.endpoints = [e \in EndpointNames |-> Endpoint(api.request, api.cacheTTL)]]
    /\ UNCHANGED << files, now, calls, others, prune, fp >>

\* the constructor has returned an object to the caller
Returned == api.pc \notin {"new", "threw"}

\* the caller reads an endpoint property of the client
AccessEndpoint ==
    /\ Returned
    /\ Len(api.uses) < MaxUses
    /\ \E e \in EndpointNames :
          api' = [api EXCEPT !.uses = Append(@,
                     [Use("access", e, "", NaN) EXCEPT
                         !.state = "done",
                         !.defined = e \in DOMAIN api.endpoints,
                         !.sameHandler = /\ e \in DOMAIN api.endpoints
                                         /\ api.endpoints[e].request = api.request])]
    /\ UNCHANGED << files, now, calls, others, prune, fp >>

\* the caller calls a read method of an endpoint: api.<prop>.<name>(...);
\* makeRequest resolves the ttl and calls request.request
EndpointRead ==
    /\ Returned
    /\ Len(api.uses) < MaxUses
    /\ \E m \in ReadMethods :
          api' = [api EXCEPT !.uses = Append(@,
                     IF m.prop \in DOMAIN api.endpoints
                     THEN [Use("read", m.prop, m.name, NaN) EXCEPT
                              !.state = "done", !.defined = TRUE,
                              !.handed = TRUE,
                              !.ttl = makeRequestTTL(api.endpoints[m.prop].cacheTTL, m.ttlKey)]
                     ELSE [Use("read", m.prop, m.name, NaN) EXCEPT
                              !.state = "rejected", !.error = UndefinedError])]
    /\ UNCHANGED << files, now, calls, others, prune, fp >>

\* the caller calls a mutating method of an endpoint; makeRequest resolves
\* the ttl and calls request.request
EndpointWrite ==
    /\ Returned
    /\ Len(api.uses) < MaxUses
    /\ \E m \in MutatingMethods :
          api' = [api EXCEPT !.uses = Append(@,
                     IF m.prop \in DOMAIN api.endpoints
                     THEN [Use("write", m.prop, m.name, NaN) EXCEPT
                              !.state = "done", !.defined = TRUE,
                              !.handed = TRUE,
                              !.ttl = makeRequestTTL(api.endpoints[m.prop].cacheTTL, m.ttlKey)]
                     ELSE [Use("write", m.prop, m.name, NaN) EXCEPT
                              !.state = "rejected", !.error = UndefinedError])]
    /\ UNCHANGED << files, now, calls, others, prune, fp >>

\* isContentAccessible(level) up to its await
IsContentAccessible ==
    /\ Returned
    /\ Len(api.uses) < MaxUses
    /\ \E level \in Levels :
          api' = [api EXCEPT !.uses = Append(@,
                     IF LessOrEqualZero(level) \/ ~IsInteger(level)
                     THEN [Use("isContentAccessible", "user", "get", level) EXCEPT
                              !.state = "rejected", !.error = LevelError]
                     ELSE IF "user" \notin DOMAIN api.endpoints
                     THEN [Use("isContentAccessible", "user", "get", level) EXCEPT
                              !.state = "rejected", !.error = UndefinedError]
                     ELSE [Use("isContentAccessible", "user", "get", level) EXCEPT
                              !.defined = TRUE, !.userRequests = 1])]
    /\ UNCHANGED << files, now, calls, others, prune, fp >>

\* isContentAccessible after its await: user.get() has settled
UserGetSettles ==
    /\ \E i \in DOMAIN api.uses : \E outcome \in UserOutcomes :
          /\ api.uses[i].op = "isContentAccessible"
          /\ api.uses[i].state = "pending"
          /\ api' = [api EXCEPT !.uses[i] =
                        IF outcome.state = "rejected"
                        THEN [@ EXCEPT !.user = outcome, !.state = "rejected",
                                       !.error = outcome.error]
                        ELSE IF ~outcome.subscribed
                        THEN [@ EXCEPT !.user = outcome, !.state = "resolved",
                                       !.value = FALSE]
                        ELSE [@ EXCEPT !.user = outcome, !.state = "resolved",
                                       !.value = GreaterOrEqual(outcome.max_level_granted,
                                                                api.uses[i].level)]]
    /\ UNCHANGED << files, now, calls, others, prune, fp >>

\* the steps of the initialisation the event loop takes by itself
InitStep == ReadPackageJson \/ InitCache \/ InitThen

NextApi ==
    \/ Construct
    \/ ReadPackageJson
    \/ InitCache
    \/ InitThen
    \/ AccessEndpoint
    \/ EndpointRead
    \/ EndpointWrite
    \/ IsContentAccessible
    \/ UserGetSettles

SpecApi == Init /\ [][NextApi]_vars /\ WF_vars(InitStep)

\* ================================================================== claims
OkEnvelope(r) == IsOk(r.status) /\ r.body.parses /\ isApiResponse(r.body)

\* the entry a call hands to setCache
EntryOf(c) ==
    JSONstringify(CacheData(calls[c].data, calls[c].response.etag,
                            calls[c].response.lastModified))

SameRequest(c, d) ==
    /\ calls[c].apiKey = calls[d].apiKey
    /\ calls[c].endpoint = calls[d].endpoint
    /\ calls[c].options = calls[d].options
    /\ calls[c].updatedAfter = calls[d].updatedAfter
    /\ calls[c].ttl = calls[d].ttl

\* d is the call made next after c, once c had settled
NextAfter(c, d) == d = c + 1 /\ c \in calls[d].prior

\* the entry c wrote is still in its file and younger than ttl
EntryInPlace(c, ttl) ==
    /\ writeKey(c) \in DOMAIN files
    /\ files[writeKey(c)].text = EntryOf(c)
    /\ now - files[writeKey(c)].mtime < ttl

\* C1: a call that resolved from a 2xx response with ETag e and wrote its
\* entry is followed by an identical call (TTL > 0, entry still in place and
\* younger than TTL, no read error) whose cache check finds the entry and which
\* sends If-None-Match: e.
C1_WrittenEntryIsFound ==
    \A c, d \in Calls :
        ( /\ NextAfter(c, d) /\ SameRequest(c, d)
          /\ calls[c].ttl > 0
          /\ calls[c].result.state = "resolved"
          /\ IsOk(calls[c].response.status)
          /\ calls[c].response.etag # Undefined
          /\ calls[c].writes # {}
          /\ calls[d].pc \in {"fetch", "handleResponse"}
          /\ ~calls[d].fsError
          /\ EntryInPlace(c, calls[d].ttl) )
        => /\ calls[d].cached # Null
           /\ GetProp(calls[d].headers, "If-None-Match") = calls[c].response.etag

\* C2: of two consecutive identical calls with TTL > 0, the first answered
\* 200 and the second 304, each issues one network call and the second
\* resolves with the data of the first.
C2_SecondCallReturnsFirstData ==
    \A c, d \in Calls :
        ( /\ NextAfter(c, d) /\ SameRequest(c, d)
          /\ calls[c].ttl > 0
          /\ calls[c].result.state = "resolved"
          /\ calls[c].response.status = 200
          /\ calls[d].pc = "done"
          /\ calls[d].response.status = NOT_MODIFIED
          /\ ~calls[d].fsError
          /\ EntryInPlace(c, calls[d].ttl) )
        => /\ calls[d].result.state = "resolved"
           /\ calls[d].result.data = calls[c].result.data
           /\ calls[c].netCalls = 1
           /\ calls[d].netCalls = 1

\* C3: a call with TTL > 0 that received a valid 2xx envelope and whose
\* cache write failed still resolves with the fetched payload.
C3_WriteFailureDoesNotAbort ==
    \A c \in Calls :
        ( /\ calls[c].pc = "done"
          /\ calls[c].ttl > 0
          /\ OkEnvelope(calls[c].response)
          /\ calls[c].writeFailed )
        => calls[c].result = Resolved(GetProp(calls[c].response.body.members, "data"))

\* C4: a call that received 304 while holding a cache entry performs no
\* cache write.
C4_NotModifiedDoesNotWrite ==
    \A c \in Calls :
        ( /\ calls[c].response.status = NOT_MODIFIED
          /\ calls[c].cached # Null )
        => /\ calls[c].pc \notin {"ensureCacheDir", "writeFile"}
           /\ calls[c].writes = {}

\* C5: every call issues exactly one network call, whatever the TTL and the
\* cache state: none before fetch, one from then on, for resolved and rejected
\* calls alike.
C5_ExactlyOneNetworkCall ==
    \A c \in Calls :
        /\ calls[c].pc \in {"idle", "stat", "readFile", "fetch"} => calls[c].netCalls = 0
        /\ calls[c].pc \in {"handleResponse", "ensureCacheDir", "writeFile", "done"}
              => calls[c].netCalls = 1

\* a call that read a cache entry, went to the network once and resolved
C5_Witness ==
    \E c \in Calls :
        /\ calls[c].cached # Null
        /\ calls[c].result.state = "resolved"
        /\ calls[c].netCalls = 1

\* C6: a call with TTL = 0 never reads the cache, never writes it and sends
\* no header beyond the prepared ones, whatever its outcome.
C6_NoCacheWithTtlZero ==
    \A c \in Calls :
        (calls[c].pc # "idle" /\ calls[c].ttl = 0)
        => /\ calls[c].reads = {}
           /\ calls[c].writes = {}
           /\ calls[c].cached = Null
           /\ calls[c].pc \notin {"stat", "readFile", "ensureCacheDir", "writeFile"}
           /\ calls[c].headers = prepareHeaders(calls[c].options, calls[c].apiKey)

\* a TTL = 0 call resolved while a fresh, well-formed entry sat under its key
C6_Witness ==
    \E c \in Calls :
        /\ calls[c].ttl = 0
        /\ calls[c].result.state = "resolved"
        /\ readKey(c) \in DOMAIN files
        /\ isCacheData(files[readKey(c)].text)
        /\ now - files[readKey(c)].mtime < 1

\* C7: a 304 received by a call whose cache check found no entry rejects the
\* call with 'Cache miss on 304 response'; it never goes on to resolve.
C7_NotModifiedWithoutEntryFails ==
    \A c \in Calls :
        ( /\ calls[c].pc \in {"ensureCacheDir", "writeFile", "done"}
          /\ calls[c].response.status = NOT_MODIFIED
          /\ calls[c].cached = Null )
        => /\ calls[c].pc = "done"
           /\ calls[c].result = Rejected("Cache miss on 304 response", 0)

\* a TTL > 0 call that read a corrupt entry, got 304 and was rejected
C7_Witness ==
    \E c \in Calls :
        /\ calls[c].ttl > 0
        /\ calls[c].pc = "done"
        /\ calls[c].response.status = NOT_MODIFIED
        /\ calls[c].cached = Null
        /\ readKey(c) \in DOMAIN files
        /\ ~isCacheData(files[readKey(c)].text)
        /\ calls[c].result.error = "Cache miss on 304 response"

\* C8: a response whose status is neither 304 nor 2xx rejects the call with
\* 'HTTP error! status: <code>', with or without a cache entry.
C8_HttpErrorCarriesStatus ==
    \A c \in Calls :
        ( /\ calls[c].pc \in {"ensureCacheDir", "writeFile", "done"}
          /\ calls[c].response # NoResponse
          /\ calls[c].response.status # NOT_MODIFIED
          /\ ~IsOk(calls[c].response.status) )
        => /\ calls[c].pc = "done"
           /\ calls[c].result = Rejected("HTTP error! status: ", calls[c].response.status)

\* a call that held a cache entry, got 401 and was rejected
C8_Witness ==
    \E c \in Calls :
        /\ calls[c].cached # Null
        /\ calls[c].response.status = 401
        /\ calls[c].result.state = "rejected"

FailureErrors ==
    { "HTTP error! status: ", "Invalid JSON",
      "Invalid response format", "Cache miss on 304 response" } \cup TransportErrors

\* C9: the step in which a call fails with an HTTP error status, a transport
\* failure, a body-parse failure, an invalid envelope or a 304 without entry
\* leaves the cache directory as it was, and the call has written nothing
\* before.
C9_FailedCallLeavesCacheUnchanged ==
    [][ \A c \in Calls :
          ( /\ calls[c].pc # "done"
            /\ calls'[c].pc = "done"
            /\ calls'[c].result.state = "rejected"
            /\ calls'[c].result.error \in FailureErrors )
          => /\ files' = files
             /\ calls'[c].writes = {} ]_vars

\* a call rejected for an invalid envelope while the entry it read is in place
C9_Witness ==
    \E c \in Calls :
        /\ calls[c].result.error = "Invalid response format"
        /\ calls[c].cached # Null
        /\ readKey(c) \in DOMAIN files
        /\ AsCacheData(files[readKey(c)].text) = calls[c].cached

\* C10: the step in which a call that received a valid 2xx envelope settles
\* resolves it with the envelope's data and, when TTL > 0, leaves a cache
\* entry holding that payload and the response's ETag and Last-Modified.
C10_OkResponseResolvesAndCaches ==
    [][ \A c \in Calls :
          ( /\ calls[c].pc # "done"
            /\ calls'[c].pc = "done"
            /\ OkEnvelope(calls'[c].response) )
          => /\ calls'[c].result =
                    Resolved(GetProp(calls'[c].response.body.members, "data"))
             /\ calls'[c].ttl > 0 =>
                    \E k \in DOMAIN files' :
                        files'[k].text =
                            JSONstringify(CacheData(
                                GetProp(calls'[c].response.body.members, "data"),
                                calls'[c].response.etag,
                                calls'[c].response.lastModified)) ]_vars

\* C11: a call with TTL > 0 whose cache check returned an entry and whose
\* response is 304 resolves with that entry's stored payload.
C11_NotModifiedResolvesWithEntry ==
    \A c \in Calls :
        ( /\ calls[c].pc = "done"
          /\ calls[c].ttl > 0
          /\ calls[c].cached # Null
          /\ calls[c].response.status = NOT_MODIFIED )
        => calls[c].result = Resolved(calls[c].cached.data)

\* C12: a call whose cache check found the file with age >= TTL holds no
\* entry, sends the prepared headers without validators, and resolves only
\* with the data of a 2xx envelope.
C12_ExpiredEntryIsAbsent ==
    \A c \in Calls :
        calls[c].expired
        => /\ calls[c].cached = Null
           /\ calls[c].headers = prepareHeaders(calls[c].options, calls[c].apiKey)
           /\ calls[c].result.state = "resolved"
                => /\ OkEnvelope(calls[c].response)
                   /\ calls[c].result.data =
                        GetProp(calls[c].response.body.members, "data")

\* a well-formed entry aged exactly TTL at the cache check, and the 304 that
\* followed rejected for want of an entry
C12_Witness ==
    \E c \in Calls :
        /\ calls[c].expired
        /\ readKey(c) \in DOMAIN files
        /\ files[readKey(c)].text.parses
        /\ isCacheData(files[readKey(c)].text)
        /\ now - files[readKey(c)].mtime = calls[c].ttl
        /\ calls[c].response.status = NOT_MODIFIED
        /\ calls[c].result = Rejected("Cache miss on 304 response", 0)

\* the step of getCached in which the read path fails: the file is missing,
\* fs.stat or fs.readFile throws, the text is not JSON, or it is not CacheData
ReadPathFails(c) ==
    /\ calls[c].pc \in {"stat", "readFile"}
    /\ calls'[c].pc # calls[c].pc
    /\ \/ readKey(c) \notin DOMAIN files
       \/ calls'[c].fsError
       \/ /\ calls[c].pc = "readFile"
          /\ \/ ~files[readKey(c)].text.parses
             \/ ~isCacheData(files[readKey(c)].text)

\* what the network alone makes of a call that holds no entry
NetworkOutcome(call) ==
    IF call.response = NoResponse
    THEN Rejected(call.thrown, 0)
    ELSE handleResponse(call.response, Null)

\* C13: a failing cache read leaves the call without entry and on its way to
\* fetch with the prepared headers only; a call that holds no entry after its
\* cache check settles with what the network response alone determines, never
\* with a cache-read error.
C13_ReadFailureIsNoEntry ==
    [][ \A c \in Calls :
          /\ ReadPathFails(c)
                => /\ calls'[c].pc = "fetch"
                   /\ calls'[c].cached = Null
                   /\ calls'[c].headers =
                        prepareHeaders(calls[c].options, calls[c].apiKey)
          /\ ( /\ calls[c].pc # "done"
               /\ calls'[c].pc = "done"
               /\ calls[c].reads # {}
               /\ ~calls[c].expired
               /\ calls[c].cached = Null )
                => calls'[c].result = NetworkOutcome(calls'[c]) ]_vars

\* C17: an entry a call read from the cache is the entry another call wrote
\* under the same key: equal payload, etag and lastModified, an absent
\* validator still absent.
C17_RoundTrip ==
    \A d \in Calls :
        calls[d].cached # Null
        => \E e \in Calls \ {d} :
              /\ readKey(d) \in calls[e].writes
              /\ ~calls[e].writeFailed
              /\ calls[d].cached =
                    CacheData(calls[e].data, calls[e].response.etag,
                              calls[e].response.lastModified)

\* an entry with an ETag and no Last-Modified, read back while in place
C17_Witness ==
    \E d \in Calls : \E e \in Calls \ {d} :
        /\ calls[e].response.etag = "e1"
        /\ calls[e].response.lastModified = Undefined
        /\ readKey(d) \in calls[e].writes
        /\ calls[d].cached = CacheData(calls[e].data, "e1", Undefined)
        /\ EntryInPlace(e, calls[d].ttl)

\* C20: a call in which fetch or response.json() threw is rejected with that
\* very error.
C20_UnderlyingErrorPropagates ==
    \A c \in Calls :
        calls[c].thrown # ""
        => /\ calls[c].pc = "done"
           /\ calls[c].result = Rejected(calls[c].thrown, 0)

\* one call rejected with the transport error, another with the parse error
\* of a 200 body
C20_Witness ==
    \E c, d \in Calls :
        /\ calls[c].response = NoResponse
        /\ calls[c].result = Rejected("ECONNRESET", 0)
        /\ calls[d].response.status = 200
        /\ ~calls[d].response.body.parses
        /\ calls[d].result = Rejected(jsonError(calls[d].response.body), 0)

\* C16: of two calls made with different api keys, neither looks up a key the
\* other wrote; an entry a call holds was written under the key it looked up
\* by a call with its own api key.
C16_IsolatedPerCredential ==
    \A d \in Calls :
        /\ \A c \in Calls :
              calls[c].apiKey # calls[d].apiKey
              => calls[d].reads \cap calls[c].writes = {}
        /\ calls[d].cached # Null
              => \E e \in Calls \ {d} :
                    /\ calls[e].apiKey = calls[d].apiKey
                    /\ readKey(d) \in calls[e].writes
                    /\ calls[d].cached =
                          CacheData(calls[e].data, calls[e].response.etag,
                                    calls[e].response.lastModified)

\* a call made for the same path and options as an earlier call of the other
\* handler, whose entry is in place and fresh: it holds no entry, sent no
\* validator and its 304 was rejected
C16_Witness ==
    \E c \in Calls : \E d \in Calls \ {c} :
        /\ calls[c].apiKey # calls[d].apiKey
        /\ calls[c].endpoint = calls[d].endpoint
        /\ calls[c].options = calls[d].options
        /\ HasHeaders(calls[c].options)
        /\ c \in calls[d].prior
        /\ EntryInPlace(c, calls[d].ttl)
        /\ calls[d].reads # {}
        /\ calls[d].cached = Null
        /\ calls[d].headers = prepareHeaders(calls[d].options, calls[d].apiKey)
        /\ calls[d].response.status = NOT_MODIFIED
        /\ calls[d].result = Rejected("Cache miss on 304 response", 0)

\* the method a request is made with: context.options.method
MethodOf(args) == contextOptions(args.options, << >>).method

SameButHeaders(a, b) ==
    /\ a.pathname = b.pathname
    /\ a.search = b.search
    /\ MethodOf(a) = MethodOf(b)
    /\ OptBody(a.options) = OptBody(b.options)
    /\ a.apiKey = b.apiKey

\* C14: equal argument lists give equal keys, and argument lists that differ
\* in method, body, path, query or api key give different keys.
C14_KeyDeterministicAndSensitive ==
    fp.pc = "done"
    => /\ fp.a = fp.b => fp.ka = fp.kb
       /\ ~SameButHeaders(fp.a, fp.b) => fp.ka # fp.kb

\* two argument lists that differ in the body alone
C14_Witness ==
    /\ fp.pc = "done"
    /\ fp.a.pathname = fp.b.pathname
    /\ fp.a.search = fp.b.search
    /\ fp.a.apiKey = fp.b.apiKey
    /\ fp.a.options.method = fp.b.options.method
    /\ fp.a.options.headers = fp.b.options.headers
    /\ OptBody(fp.a.options) = "b1"
    /\ OptBody(fp.b.options) = "b2"
    /\ fp.ka # fp.kb

\* C15: argument lists equal in path, query, method, body and api key give
\* the same key whatever their headers.
C15_KeyIgnoresHeaders ==
    ( fp.pc = "done" /\ SameButHeaders(fp.a, fp.b) ) => fp.ka = fp.kb

\* the regular files of the cache directory with their mtime
RegularFiles ==
    { [name |-> k, mtime |-> files[k].mtime] : k \in DOMAIN files }
    \cup { [name |-> n, mtime |-> others[n].mtime] :
             n \in { m \in DOMAIN others : others[m].isFile } }

\* C18 as stated: when cleanOldCaches has returned, no regular file is left
\* whose age exceeded maxAge when it was called, no file was deleted at an age
\* not exceeding maxAge, and nothing but regular files was deleted.
C18_PruneDeletesAllOldFiles ==
    prune.pc = "done"
    => /\ \A e \in RegularFiles : ~(prune.start - e.mtime > prune.maxAge)
       /\ prune.unlinkedYoung = {}
       /\ \A n \in DOMAIN others : ~others[n].isFile => n \notin prune.deleted

\* C18 amended: cleanOldCaches deletes only regular *.json files whose age at
\* their fs.stat exceeded maxAge; when it has returned after a successful
\* readdir, a regular *.json file left whose age exceeded maxAge when it was
\* called is one whose fs.stat or fs.unlink failed.
C18_PruneDeletesOldJsonFiles ==
    /\ prune.deleted \subseteq prune.sawOld
    /\ prune.deleted \cap DOMAIN others = {}
    /\ prune.listing \cap DOMAIN others = {}
    /\ ( prune.pc = "done" /\ ~prune.readdirFailed )
          => \A k \in DOMAIN files :
                prune.start - files[k].mtime > prune.maxAge
                => k \in prune.statFailed \cup prune.unlinkFailed

\* one file deleted, one aged exactly maxAge kept, beside a sub-directory and
\* a file that is not *.json
C18_Witness ==
    \E f \in PruneKeys : \E g \in PruneKeys \ {f} :
        /\ prune.pc = "done"
        /\ f \in prune.deleted
        /\ g \in prune.finished \ (prune.sawOld \cup prune.statFailed)
        /\ g \in DOMAIN files
        /\ prune.start - files[g].mtime = prune.maxAge
        /\ now = prune.start
        /\ others = OtherEntries

\* C19: cleanOldCaches never rejects.  When readdir failed it has warned and
\* deleted nothing; otherwise it has not warned and every listed file has
\* been through cleanCacheFile, whichever of them failed.
C19_PruneAlwaysResolves ==
    /\ prune.result # "rejected"
    /\ prune.pc = "done"
          => /\ prune.result = "resolved"
             /\ prune.readdirFailed =>
                    prune.warned /\ prune.deleted = {} /\ prune.finished = {}
             /\ ~prune.readdirFailed =>
                    ~prune.warned /\ prune.finished = prune.listing

\* a failed stat or unlink of one file beside the deletion of another
C19_Witness ==
    \E f \in PruneKeys : \E g \in PruneKeys \ {f} :
        /\ prune.pc = "done"
        /\ f \in prune.statFailed \cup prune.unlinkFailed
        /\ g \in prune.deleted

\* a parsed body that is not an envelope: not an object, or without one of
\* the members object, url, data
NotEnvelope(body) ==
    /\ body.parses
    /\ \/ ~body.isObject
       \/ \E k \in {"object", "url", "data"} : ~HasKey(body.members, k)

\* C21: a call whose 2xx response parsed to something that is not an envelope
\* is rejected with 'Invalid response format' as soon as the response is
\* handled; it does not go on to write, and never resolves.
C21_InvalidEnvelopeIsFormatError ==
    \A c \in Calls :
        ( /\ calls[c].pc \in {"ensureCacheDir", "writeFile", "done"}
          /\ calls[c].response # NoResponse
          /\ calls[c].response.status # NOT_MODIFIED
          /\ IsOk(calls[c].response.status)
          /\ NotEnvelope(calls[c].response.body) )
        => /\ calls[c].pc = "done"
           /\ calls[c].result = Rejected("Invalid response format", 0)
           /\ calls[c].writes = {}

\* a call that held an entry and got a 200 body with data but no url
C21_Witness ==
    \E c \in Calls :
        /\ calls[c].cached # Null
        /\ calls[c].response.status = 200
        /\ calls[c].response.body = BodyNoUrl
        /\ calls[c].result = Rejected("Invalid response format", 0)

\* the second argument of fetch
Sent(c) == contextOptions(calls[c].options, calls[c].headers)

\* the value the caller gave header k as a string, Undefined if it gave none
CallerString(options, k) ==
    IF HasHeaders(options) /\ HasKey(options.headers, k)
       /\ typeof(GetProp(options.headers, k)) = "string"
    THEN GetProp(options.headers, k)
    ELSE Undefined

LibraryHeaders(apiKey) ==
    [ k \in {"Authorization", "Wanikani-Revision", "Content-Type"} |->
        CASE k = "Authorization" -> Bearer(apiKey)
          [] k = "Wanikani-Revision" -> apiRevision
          [] k = "Content-Type" -> "application/json" ]

\* C22: a call that has called fetch passed the caller's method, or GET, and
\* the caller's body; each of the three library headers with the library's
\* value unless the caller gave it a string value; every other string-valued
\* caller header; and beside these only validators.
C22_RequestAsPrepared ==
    \A c \in Calls :
        calls[c].netCalls > 0
        => LET o == calls[c].options
               h == Sent(c).headers
               lib == LibraryHeaders(calls[c].apiKey)
           IN /\ Sent(c).method = IF o.method # Undefined THEN o.method ELSE "GET"
              /\ Sent(c).body = o.body
              /\ \A k \in DOMAIN lib :
                    GetProp(h, k) = IF CallerString(o, k) # Undefined
                                    THEN CallerString(o, k) ELSE lib[k]
              /\ \A i \in 1..Len(h) :
                    \/ h[i].k \in DOMAIN lib
                    \/ h[i].k \in {"If-None-Match", "If-Modified-Since"}
                    \/ h[i].v = CallerString(o, h[i].k)
              /\ HasHeaders(o) =>
                    \A i \in 1..Len(o.headers) :
                        typeof(o.headers[i].v) = "string"
                        => GetProp(h, o.headers[i].k) = o.headers[i].v

\* a call sent with a non-string Content-Type and X-Num left out and Accept
\* added, another with PUT, a body and the caller's Authorization
C22_Witness ==
    \E c, d \in Calls :
        /\ calls[c].netCalls > 0
        /\ GetProp(calls[c].options.headers, "Content-Type") = "#42"
        /\ GetProp(Sent(c).headers, "Content-Type") = "application/json"
        /\ ~HasKey(Sent(c).headers, "X-Num")
        /\ GetProp(Sent(c).headers, "Accept") = "a"
        /\ calls[d].netCalls > 0
        /\ Sent(d).method = "PUT"
        /\ Sent(d).body = "b1"
        /\ GetProp(Sent(d).headers, "Authorization") = "Basic x"

\* C23: whatever getCached would return for a cache file is the entry one
\* call handed to setCache for that file: payload, etag and lastModified of
\* the same write.
C23_ObservedEntryIsOneWrite ==
    \A k \in DOMAIN files :
        ( files[k].text.parses /\ isCacheData(files[k].text) )
        => \E c \in Calls :
              /\ k \in calls[c].writes
              /\ AsCacheData(files[k].text) =
                    CacheData(calls[c].data, calls[c].response.etag,
                              calls[c].response.lastModified)

\* the payloads a call can hand out whole: the data of its response's
\* envelope and the data of the entry it holds
WholePayloads(c) ==
    (IF OkEnvelope(calls[c].response)
     THEN {GetProp(calls[c].response.body.members, "data")} ELSE {})
    \cup (IF calls[c].cached # Null THEN {calls[c].cached.data} ELSE {})

\* C24: a call that was made settles; a settled call is either resolved with
\* a whole payload and no error, or rejected with an error and no payload;
\* and a settled call stays as it settled.
C24_SettlesExactlyOnce ==
    /\ \A c \in Calls : (calls[c].pc # "idle") ~> (calls[c].pc = "done")
    /\ [](\A c \in Calls :
            /\ calls[c].pc = "done"
                => \/ /\ calls[c].result.state = "resolved"
                      /\ calls[c].result.error = ""
                      /\ calls[c].result.data \in WholePayloads(c)
                   \/ /\ calls[c].result.state = "rejected"
                      /\ calls[c].result.error # ""
                      /\ calls[c].result.data = Undefined
            /\ calls[c].pc # "done" => calls[c].result = Pending)
    /\ [][ \A c \in Calls : calls[c].pc = "done" => calls'[c] = calls[c] ]_vars

\* one call resolved and one rejected by a failed cache write
C24_Witness ==
    \E c, d \in Calls :
        /\ calls[c].pc = "done"
        /\ calls[c].result.state = "resolved"
        /\ calls[d].pc = "done"
        /\ calls[d].result.state = "rejected"
        /\ calls[d].writeFailed

\* every endpoint property holds an endpoint built on the client's handler
AllDefined == DOMAIN api.endpoints = EndpointNames
OnOneHandler ==
    /\ api.request # NoHandler
    /\ \A e \in DOMAIN api.endpoints : api.endpoints[e].request = api.request

\* C25: an endpoint property read after `new WaniKaniAPI(key)` has returned
\* is initialised, and its request handler is; a method called on it, as in
\* `await api.user.get()`, is called on an endpoint.
C25_UsableOnReturn ==
    \A i \in DOMAIN api.uses :
        /\ api.uses[i].op = "access"
              => api.uses[i].defined /\ api.uses[i].sameHandler
        /\ api.uses[i].op = "read" => api.uses[i].defined

\* C26: once the constructor has returned, all eleven endpoint properties
\* become defined, with or without a package.json; they are built on the
\* client's one request handler; and once defined they stay defined.
C26_EndpointsBecomeDefined ==
    /\ Returned ~> AllDefined
    /\ [](AllDefined => OnOneHandler)
    /\ [][ AllDefined => AllDefined' ]_vars

\* a value that is a non-empty string
NonEmptyString(v) == typeof(v) = "string" /\ v # ""

\* C27: the constructor throws 'WaniKani API key is required...' exactly
\* when neither its argument nor WANIKANI_API_KEY is a non-empty string; then
\* initCache is not started and no endpoint exists; otherwise a non-empty
\* argument is the key used, whatever the environment holds.
C27_ThrowsWithoutKey ==
    api.pc # "new" =>
        /\ api.pc = "threw"
              <=> ~NonEmptyString(api.arg) /\ ~NonEmptyString(api.env)
        /\ api.pc = "threw"
              => /\ api.thrown = KeyRequired
                 /\ ~api.initStarted
                 /\ api.request = NoHandler
                 /\ DOMAIN api.endpoints = {}
        /\ api.pc # "threw" /\ NonEmptyString(api.arg) => api.apiKey = api.arg

PositiveInteger(x) == IsInteger(x) /\ ~LessOrEqualZero(x)

\* C28: isContentAccessible(level) rejects without a user request when level
\* is not a positive integer; otherwise it asks for the user once and
\* rejects with the error of that request, resolves to false when the
\* subscription is null, and to max_level_granted >= level when it is not.
C28_ContentAccessible ==
    \A i \in DOMAIN api.uses :
        LET u == api.uses[i] IN
        u.op = "isContentAccessible" =>
            /\ ~PositiveInteger(u.level)
                  => /\ u.state = "rejected"
                     /\ u.error = LevelError
                     /\ u.userRequests = 0
            /\ PositiveInteger(u.level)
                  => /\ u.userRequests = 1
                     /\ u.state # "pending"
                           => /\ u.user.state = "rejected"
                                    => u.state = "rejected" /\ u.error = u.user.error
                              /\ u.user.state = "resolved" /\ ~u.user.subscribed
                                    => u.state = "resolved" /\ u.value = FALSE
                              /\ u.user.state = "resolved" /\ u.user.subscribed
                                    => /\ u.state = "resolved"
                                       /\ u.value = GreaterOrEqual(u.user.max_level_granted, u.level)

\* the category of CacheTTLConfig a read belongs to
CategoryOf(u) ==
    (CHOOSE m \in ReadMethods : m.prop = u.prop /\ m.name = u.method).category

\* the category's duration if configured, else the configured default, else
\* 3600 seconds
ConfiguredSeconds(cacheTTL, category) ==
    IF category \in DOMAIN cacheTTL THEN cacheTTL[category]
    ELSE IF "default" \in DOMAIN cacheTTL THEN cacheTTL["default"]
    ELSE 3600

\* C29: the ttl a read hands to the request layer is the duration configured
\* for its category, else the configured default, else 3600 seconds, in
\* milliseconds.
C29_TTLFollowsConfiguration ==
    \A i \in DOMAIN api.uses :
        api.uses[i].op = "read" /\ api.uses[i].handed
            => api.uses[i].ttl
                 = ConfiguredSeconds(api.cacheTTL, CategoryOf(api.uses[i])) * 1000

\* C30: with no cacheTTL configured, reviews.getAll and reviews.get hand
\* ttl 0 to the request layer.
C30_ReviewsNeverCached ==
    \A i \in DOMAIN api.uses :
        /\ api.cacheTTL = EmptyObject
        /\ api.uses[i].op = "read"
        /\ api.uses[i].prop = "reviews"
        /\ api.uses[i].handed
        => api.uses[i].ttl = 0

\* calls that differ in updatedAfter only
SameButUpdatedAfter(c, d) ==
    /\ calls[c].pc # "idle" /\ calls[d].pc # "idle"
    /\ calls[c].apiKey = calls[d].apiKey
    /\ calls[c].endpoint = calls[d].endpoint
    /\ calls[c].options = calls[d].options
    /\ calls[c].ttl = calls[d].ttl
    /\ calls[c].updatedAfter # calls[d].updatedAfter

C32_MutationsNeverCached ==
    \A i \in DOMAIN api.uses :
        api.uses[i].op = "write" /\ api.uses[i].handed
            => /\ api.uses[i].ttl = 0
               /\ ~handleCachedResponseReads(api.uses[i].ttl)
               /\ ~updateCacheWrites(api.uses[i].ttl)

\* the cache check of call c is over
Checked(c) == calls[c].pc \notin {"idle", "stat", "readFile"}

\* the library sets the conditional header: the call has ttl > 0 and an entry
\* from its cache check whose validator is a non-empty string
SetsHeader(c, validator) ==
    /\ calls[c].ttl > 0
    /\ calls[c].cached # Null
    /\ validator # Undefined
    /\ validator # ""

\* C33: once the cache check is over, If-None-Match on the outgoing request
\* is the entry's etag exactly when ttl > 0 and the check returned an entry
\* with a non-empty etag, and is otherwise what the caller supplied, if
\* anything; likewise If-Modified-Since with lastModified; every other
\* header is as prepared.
C33_ConditionalHeaders ==
    \A c \in Calls : Checked(c) =>
        LET prepared == prepareHeaders(calls[c].options, calls[c].apiKey)
            sent == calls[c].headers
            etag == IF calls[c].cached # Null THEN calls[c].cached.etag ELSE Undefined
            lastModified == IF calls[c].cached # Null
                            THEN calls[c].cached.lastModified ELSE Undefined
        IN  /\ calls[c].ttl = 0 => calls[c].cached = Null
            /\ GetProp(sent, "If-None-Match")
                  = IF SetsHeader(c, etag) THEN etag
                    ELSE GetProp(prepared, "If-None-Match")
            /\ GetProp(sent, "If-Modified-Since")
                  = IF SetsHeader(c, lastModified) THEN lastModified
                    ELSE GetProp(prepared, "If-Modified-Since")
            /\ \A i \in 1..Len(prepared) :
                  prepared[i].k \notin {"If-None-Match", "If-Modified-Since"}
                      => GetProp(sent, prepared[i].k) = prepared[i].v
            /\ \A i \in 1..Len(sent) :
                  HasKey(prepared, sent[i].k)
                      \/ sent[i].k \in {"If-None-Match", "If-Modified-Since"}

\* a call whose caller supplied If-None-Match found an entry with an etag and
\* was sent with the entry's etag in place of the caller's value
C33_Witness ==
    \E c \in Calls :
        /\ calls[c].netCalls = 1
        /\ GetProp(prepareHeaders(calls[c].options, calls[c].apiKey), "If-None-Match") = "stale"
        /\ calls[c].cached # Null
        /\ calls[c].cached.etag = "e1"
        /\ GetProp(calls[c].headers, "If-None-Match") = "e1"

\* the cache files that hold an entry
EntryKeys ==
    { k \in DOMAIN files : files[k].text.parses /\ isCacheData(files[k].text) }

\* the response of call c delivered this payload with these validators
Delivered(c, entry) ==
    /\ calls[c].pc # "idle"
    /\ OkEnvelope(calls[c].response)
    /\ GetProp(calls[c].response.body.members, "data") = entry.data
    /\ calls[c].response.etag = entry.etag
    /\ calls[c].response.lastModified = entry.lastModified

\* C34: the etag and lastModified of every stored entry are the ETag and
\* Last-Modified of the response that delivered the entry's payload; a call
\* answered with 304 therefore leaves the validators of an entry alone.
C34_ValidatorsOfThePayload ==
    \A k \in EntryKeys :
        \E c \in Calls : Delivered(c, AsCacheData(files[k].text))

\* the file under the key call c looks up holds an entry with this payload
LookedUpEntryHolds(c, data) ==
    /\ readKey(c) \in EntryKeys
    /\ AsCacheData(files[readKey(c)].text).data = data

\* C35: calls of one request with ttl > 0, made one after the other, without
\* write failure: when they have settled, the entry the request looks up
\* holds the payload of the last call that resolved.
C35_EntryHoldsLastPayload ==
    /\ \A c \in Calls :
          ( /\ calls[c].pc = "done" /\ calls[c].ttl > 0
            /\ calls[c].result.state = "resolved"
            /\ \A d \in Calls \ {c} : calls[d].pc = "idle" )
          => LookedUpEntryHolds(c, calls[c].result.data)
    /\ \A c \in Calls : \A d \in Calls :
          ( /\ NextAfter(c, d) /\ SameRequest(c, d)
            /\ calls[c].ttl > 0
            /\ calls[d].pc = "done"
            /\ ~calls[c].writeFailed /\ ~calls[d].writeFailed )
          => /\ calls[d].result.state = "resolved"
                  => LookedUpEntryHolds(d, calls[d].result.data)
             /\ calls[d].result.state = "rejected" /\ calls[c].result.state = "resolved"
                  => LookedUpEntryHolds(d, calls[c].result.data)

\* getCached(...) with this ttl would return the entry of file k now: the
\* age test of getCached passes and the text is an entry
ReadWouldReturn(k, ttl) ==
    /\ k \in DOMAIN files
    /\ now - files[k].mtime < ttl
    /\ files[k].text.parses
    /\ isCacheData(files[k].text)

\* C36: whenever cleanOldCaches(maxAge) decides, on the fs.stat of a file,
\* to delete it, getCached with ttl = maxAge would not return that file's
\* entry at that instant.
C36_PruneSparesWhatReadReturns ==
    [][ \A f \in PruneKeys :
            f \in prune'.toUnlink /\ f \notin prune.toUnlink
                => ~ReadWouldReturn(f, prune.maxAge) ]_vars

\* C36 as stated: at the instant cleanOldCaches(maxAge) deletes a file,
\* getCached with ttl = maxAge would not return that file's entry.
C36_NeverDeletesWhatReadReturns ==
    [][ \A f \in PruneKeys :
            f \in prune'.deleted /\ f \notin prune.deleted
                => ~ReadWouldReturn(f, prune.maxAge) ]_vars

\* cleanOldCaches deleted a file older than maxAge and has left in place a
\* file whose entry getCached would return
C36_Witness ==
    \E f \in PruneKeys : \E g \in PruneKeys :
        /\ f \in prune.deleted /\ f \in prune.sawOld
        /\ g \in prune.finished /\ g \notin prune.statFailed
        /\ g \notin prune.deleted
        /\ ReadWouldReturn(g, prune.maxAge)

\* C37: a call whose cache check returned an entry, whose entry's file was
\* gone when the response arrived and whose response is 304 resolves with the
\* payload it read; a call that ends with 'Cache miss on 304 response' had no
\* entry from its own cache check.
C37_DeletedEntryStillServes ==
    \A c \in Calls :
        calls[c].pc = "done"
        => /\ ( calls[c].gone /\ calls[c].response.status = NOT_MODIFIED )
                => calls[c].result = Resolved(calls[c].cached.data)
           /\ calls[c].result.error = "Cache miss on 304 response"
                => calls[c].cached = Null

====
